---- MODULE Spec2Model ----
(***************************************************************************)
(* A model of the healthcare.js / judiciary.js self-healing agents.        *)
(*                                                                         *)
(* Every node of the fleet runs one agent (class Healthcare or class       *)
(* Judiciary).  The agent keeps a server registry (this.servers), a list   *)
(* of groups (this.groups), a buffer of pending removals                   *)
(* (this.pendingRemovals) and the closure flag firstRun, and reacts to the *)
(* democracy.js events added / removed / elected / leader.  democracy.js   *)
(* and the DigitalOcean API are external: they are the environment of the  *)
(* model (node failures, event delivery, elections, replies to calls).     *)
(***************************************************************************)
EXTENDS Integers, Sequences, FiniteSets, TLC

VARIABLES
  cls,              \* which class the fleet runs: "Healthcare" or "Judiciary"
  fleetTag,         \* this.tag, the tag the agents were constructed with
  status,           \* droplet id -> "none" | "up" | "down" | "gone"
  tagsOf,           \* droplet id -> its tags at the provider
  isLeader,         \* node -> democracy.isLeader() of the agent on that node
  peers,            \* agent -> (id -> "none" | "citizen" | "leader"): democracy's node table
  servers,          \* agent -> this.servers (sequence of [id, tags])
  groups,           \* agent -> this.groups (sequence of group records)
  pendingRemovals,  \* agent -> this.pendingRemovals (sequence of [id, state])
  firstRun,         \* agent -> the firstRun flag of setupDemocracy's closure
  lookups,          \* agent -> (id -> number of dropletsGetById calls in flight)
  destroyReq,       \* ids with a dropletsDelete call in flight
  createReq,        \* config name -> number of dropletsCreate calls in flight
  destroyCount,     \* id -> number of destroy(id) calls issued by all agents
  history,          \* agent -> what the agent has observed so far (see Hist0)
  counters,         \* env: failures, remote elections and resignations so far
  last              \* what the most recent handler did (see Last)

vars == <<cls, fleetTag, status, tagsOf, isLeader, peers, servers, groups,
          pendingRemovals, firstRun, lookups, destroyReq, createReq,
          destroyCount, history, counters, last>>

----------------------------------------------------------------------------
(* Bounds of the model. *)

MaxLen == 3        \* registry length of the balance() inputs
MaxSize == 2       \* group sizes of the balance() inputs
NumIds == 4        \* droplet ids 1..NumIds; ids above 3 are free for new droplets
MaxEnv == 2        \* steps democracy and the nodes take on their own: failures, elections elsewhere, resignations
MaxCalls == 2      \* handlers stop being scheduled once a droplet saw this many destroys
MaxLookups == 2    \* dropletsGetById calls in flight per agent and id
MaxInflight == 1   \* handlers stop being scheduled with more dropletsCreate calls of a config in flight
MaxGroups == 2     \* groups registered with a floating IP setting

Ids == 1 .. NumIds
Agents == {2}             \* the nodes whose agent's handlers are followed
InitialIds == {1, 2, 3}   \* the droplets listed at bootstrap
Classes == {"Healthcare", "Judiciary"}

(* The groups the service registers (group() calls after init()). *)
GroupA == [name |-> "A", tags |-> {"envT"}, size |-> 2,
           config |-> [name |-> "A", tags |-> {"envT", "healthcare"}]]
GroupB == [name |-> "B", tags |-> {"envT", "typeS"}, size |-> 2,
           config |-> [name |-> "B", tags |-> {"envT", "typeS", "healthcare"}]]
Catalogue == <<GroupA, GroupB>>   \* in the order the service registers them
ConfigNames == {"A", "B"}
ConfigTags(n) == IF n = "A" THEN GroupA.config.tags ELSE GroupB.config.tags

InitialTags(id) == IF id = 3 THEN {"typeS", "healthcare"}
                   ELSE {"envT", "healthcare"}

----------------------------------------------------------------------------
(* Pure parts of the agents. *)

DestroyCall(id) == [op |-> "destroy", id |-> id, config |-> "-"]
CreateCall(config) == [op |-> "create", id |-> 0, config |-> config.name]

(* balance's membership test of a server with tags stags for a group with  *)
(* tags gtags.                                                             *)
InGroupHealthcare(stags, gtags) ==
  \A tag \in stags : tag \in gtags \/ tag = "healthcare"

InGroupJudiciary(stags, gtags) ==
  \E tag \in stags : tag \in gtags

InGroup(c, stags, gtags) ==
  IF c = "Healthcare" THEN InGroupHealthcare(stags, gtags)
  ELSE InGroupJudiciary(stags, gtags)

(* handleRemoval's choice of the groups to re-balance after a server with  *)
(* tags stags left.                                                        *)
AffectedHealthcare(gtags, stags) ==
  \A tag \in gtags : tag \in stags \/ tag = "healthcare"

AffectedJudiciary(gtags, stags) ==
  \E tag \in gtags : tag \in stags

Affected(c, gtags, stags) ==
  IF c = "Healthcare" THEN AffectedHealthcare(gtags, stags)
  ELSE AffectedJudiciary(gtags, stags)

(* Array.prototype.findIndex on the id, 1-based; 0 when nothing is found. *)
FindIndex(svs, id) ==
  IF \E i \in 1 .. Len(svs) : svs[i].id = id
  THEN CHOOSE i \in 1 .. Len(svs) :
         svs[i].id = id /\ \A j \in 1 .. (i - 1) : svs[j].id # id
  ELSE 0

(* getServer(id): the index of the record found, 0 for undefined. *)
GetServer(svs, id) == FindIndex(svs, id)

(* splice(index, 1) *)
Splice(svs, i) == SubSeq(svs, 1, i - 1) \o SubSeq(svs, i + 1, Len(svs))

(* addServer(server) *)
AddServer(svs, id, tags) == Append(svs, [id |-> id, tags |-> tags])

(* The running state of one handler: the registry it works on, the calls   *)
(* it has issued so far, the groups it has balanced, the member lists      *)
(* balance computed, the ids getServer did not find, the ids for which     *)
(* handleRemoval ran to its end, and whether a TypeError ended it.         *)
Ctx0(svs) == [servers |-> svs, calls |-> <<>>, balanced |-> <<>>,
              members |-> <<>>, missing |-> <<>>, handled |-> <<>>,
              threw |-> FALSE]

BalanceMembers(c, svs, g) ==
  SelectSeq(svs, LAMBDA s : InGroup(c, s.tags, g.tags))

(* balance(group) *)
Balance(ctx, c, g) ==
  LET members == BalanceMembers(c, ctx.servers, g)
      diff == g.size - Len(members)
      issued == IF diff > 0 THEN [i \in 1 .. diff |-> CreateCall(g.config)]
                ELSE IF diff < 0
                     THEN [i \in 1 .. (0 - diff) |-> DestroyCall(members[i].id)]
                     ELSE <<>>
  IN [ctx EXCEPT !.calls = @ \o issued,
                 !.balanced = Append(@, g.name),
                 !.members = Append(@, [j \in 1 .. Len(members) |-> members[j].id])]

RECURSIVE BalanceAll(_, _, _)
BalanceAll(ctx, c, gs) ==
  IF gs = <<>> THEN ctx
  ELSE BalanceAll(Balance(ctx, c, Head(gs)), c, Tail(gs))

(* handleRemoval(data): reading server.id of an undefined server throws. *)
HandleRemoval(ctx, c, gs, data) ==
  LET i == GetServer(ctx.servers, data.id)
  IN IF i = 0
     THEN [ctx EXCEPT !.missing = Append(@, data.id), !.threw = TRUE]
     ELSE LET server == ctx.servers[i]
              index == FindIndex(ctx.servers, data.id)
              c1 == [ctx EXCEPT !.calls = Append(@, DestroyCall(server.id)),
                                !.servers = IF index >= 1 THEN Splice(@, index) ELSE @]
              affected == SelectSeq(gs, LAMBDA g : Affected(c, g.tags, server.tags))
              c2 == BalanceAll(c1, c, affected)
          IN [c2 EXCEPT !.handled = Append(@, data.id)]

(* this.pendingRemovals.forEach(d => handleRemoval(d)): an exception ends  *)
(* the loop.                                                               *)
RECURSIVE Drain(_, _, _, _)
Drain(ctx, c, gs, pend) ==
  IF pend = <<>> \/ ctx.threw THEN ctx
  ELSE Drain(HandleRemoval(ctx, c, gs, Head(pend)), c, gs, Tail(pend))

(* firstRun after the bootstrap re-balance of the elected handler. *)
FirstRunAfterBoot(c) == IF c = "Healthcare" THEN FALSE ELSE TRUE

(* The added handler's reaction to a newcomer announced as leader. *)
AddedClears(c, state) == c = "Healthcare" /\ state = "leader"

----------------------------------------------------------------------------
(* Bookkeeping shared by the handlers. *)

Range(f) == {f[i] : i \in DOMAIN f}

RECURSIVE CountDestroys(_, _)
CountDestroys(calls, id) ==
  IF calls = <<>> THEN 0
  ELSE (IF Head(calls) = DestroyCall(id) THEN 1 ELSE 0) + CountDestroys(Tail(calls), id)

RECURSIVE CountCreates(_, _)
CountCreates(calls, n) ==
  IF calls = <<>> THEN 0
  ELSE (IF Head(calls).op = "create" /\ Head(calls).config = n THEN 1 ELSE 0)
       + CountCreates(Tail(calls), n)

(* The provider receives the calls a handler issued. *)
Issue(calls) ==
  /\ destroyCount' = [id \in Ids |-> destroyCount[id] + CountDestroys(calls, id)]
  /\ destroyReq' = destroyReq \cup
       {id \in Ids : CountDestroys(calls, id) > 0 /\ status[id] \in {"up", "down"}}
  /\ createReq' = [n \in ConfigNames |-> createReq[n] + CountCreates(calls, n)]

(* What an agent has observed so far. *)
Hist0 == [leaderSeen |-> FALSE,   \* a leader event, and no leader removal since
          elections |-> 0,        \* elected events handled
          boots |-> 0,            \* elections that re-balanced every group (bootstrap)
          removedSeen |-> {},     \* ids with a removed event handled, no added since
          callsAsCitizen |-> 0,   \* calls issued while isLeader() was false
          createFailed |-> FALSE, \* a dropletsCreate call of the agent was rejected
          removedAsLeader |-> {}] \* ids whose removed event was handled as leader, no added since

Last(a, kind, id, state, ctx, leader, boot, before) ==
  [agent |-> a, kind |-> kind, id |-> id, state |-> state,
   calls |-> ctx.calls, balanced |-> ctx.balanced, members |-> ctx.members,
   missing |-> ctx.missing, handled |-> ctx.handled, threw |-> ctx.threw,
   leader |-> leader, boot |-> boot, before |-> before]

(* The agent's state before a handler ran. *)
Before(a) == [servers |-> servers[a], groups |-> groups[a],
              pending |-> pendingRemovals[a], firstRun |-> firstRun[a],
              repeat |-> FALSE]

NoBefore == [servers |-> <<>>, groups |-> <<>>, pending |-> <<>>, firstRun |-> TRUE,
             repeat |-> FALSE]

Up(a) == status[a] = "up"
Budget == /\ \A id \in Ids : destroyCount[id] < MaxCalls
          /\ \A n \in ConfigNames : createReq[n] <= MaxInflight

(* The removed handler: what an agent does with removed(data) given        *)
(* democracy.isLeader().                                                   *)
RemovedRunsPipelineUnguarded(leader) == TRUE
RemovedRunsPipeline(leader) == leader
RemovedBuffersAnyRole(leader, state) == ~leader
RemovedBuffers(leader, state) == (~leader) /\ state = "leader"

(* group(): the new group is balanced at once by a leader only. *)
GroupBalances(leader) == leader

(* The role democracy reports for a node. *)
RoleOf(id) == IF isLeader[id] THEN "leader" ELSE "citizen"

Listing == [i \in 1 .. Cardinality(InitialIds) |-> [id |-> i, tags |-> InitialTags(i)]]

NoLast == Last(0, "init", 0, "-", Ctx0(<<>>), FALSE, FALSE, NoBefore)

(* The state after init() on every followed agent: the registry holds the  *)
(* listing (the droplets that existed when it was taken: the last initial  *)
(* droplet may have been started after it), democracy knows only the       *)
(* local node, nothing is registered.  The fleet the agent joins has no    *)
(* leader yet, or one of the other nodes leads it.                         *)
InitAgents ==
  /\ fleetTag = "healthcare"
  /\ status = [id \in Ids |-> IF id \in InitialIds THEN "up" ELSE "none"]
  /\ tagsOf = [id \in Ids |-> IF id \in InitialIds THEN InitialTags(id) ELSE {}]
  /\ \E l \in {0} \cup (InitialIds \ Agents) : isLeader = [id \in Ids |-> id = l]
  /\ peers = [a \in Agents |-> [id \in Ids |-> IF id = a THEN "citizen" ELSE "none"]]
  /\ \E n \in {Len(Listing) - 1, Len(Listing)} :
       servers = [a \in Agents |-> SubSeq(Listing, 1, n)]
  /\ groups = [a \in Agents |-> <<>>]
  /\ pendingRemovals = [a \in Agents |-> <<>>]
  /\ firstRun = [a \in Agents |-> TRUE]
  /\ lookups = [a \in Agents |-> [id \in Ids |-> 0]]
  /\ destroyReq = {}
  /\ createReq = [n \in ConfigNames |-> 0]
  /\ destroyCount = [id \in Ids |-> 0]
  /\ history = [a \in Agents |-> Hist0]
  /\ counters = [env |-> 0]
  /\ last = NoLast

Init ==
  /\ cls \in Classes
  /\ InitAgents

----------------------------------------------------------------------------
(* The agents' operations. *)

(* group({tags, size, config}): the service registers its next group. *)
Group(a) ==
  /\ Up(a) /\ Budget
  /\ Len(groups[a]) < Len(Catalogue)
  /\ LET g == Catalogue[Len(groups[a]) + 1]
         gs == Append(groups[a], g)
         ctx == IF GroupBalances(isLeader[a])
                THEN Balance(Ctx0(servers[a]), cls, g)
                ELSE Ctx0(servers[a])
     IN /\ groups' = [groups EXCEPT ![a] = gs]
        /\ Issue(ctx.calls)
        /\ history' = [history EXCEPT ![a].callsAsCitizen =
                         IF ctx.calls # <<>> /\ ~isLeader[a] THEN 1 ELSE @]
        /\ last' = Last(a, "group", 0, "-", ctx, isLeader[a], FALSE, Before(a))
  /\ UNCHANGED <<cls, fleetTag, status, tagsOf, isLeader, peers, servers,
                 pendingRemovals, firstRun, lookups, counters>>

(* democracy.on('added') *)
Added(a, id) ==
  /\ Up(a) /\ status[id] = "up" /\ id # a
  /\ peers[a][id] = "none"
  /\ LET state == RoleOf(id)
         known == \E i \in 1 .. Len(servers[a]) : servers[a][i].id = id
     IN /\ (~known) => lookups[a][id] < MaxLookups
        /\ peers' = [peers EXCEPT ![a][id] = state]
        /\ pendingRemovals' = [pendingRemovals EXCEPT ![a] =
                                 IF AddedClears(cls, state) THEN <<>> ELSE @]
        /\ firstRun' = [firstRun EXCEPT ![a] =
                          IF AddedClears(cls, state) THEN FALSE ELSE @]
        /\ lookups' = [lookups EXCEPT ![a][id] = IF known THEN @ ELSE @ + 1]
        /\ history' = [history EXCEPT
                         ![a].leaderSeen = IF state = "leader" THEN TRUE ELSE @,
                         ![a].removedSeen = @ \ {id},
                         ![a].removedAsLeader = @ \ {id}]
        /\ last' = Last(a, "added", id, state, Ctx0(servers[a]), isLeader[a], FALSE,
                        Before(a))
  /\ UNCHANGED <<cls, fleetTag, status, tagsOf, isLeader, servers, groups,
                 destroyReq, createReq, destroyCount, counters>>

(* The reply to the dropletsGetById(data.id) of the added handler. *)
LookupReturn(a, id) ==
  /\ Up(a)
  /\ lookups[a][id] > 0
  /\ lookups' = [lookups EXCEPT ![a][id] = @ - 1]
  /\ servers' = [servers EXCEPT ![a] =
                   IF status[id] \in {"up", "down"}
                   THEN AddServer(@, id, tagsOf[id]) ELSE @]
  /\ last' = Last(a, "lookup", id, "-", Ctx0(servers'[a]), isLeader[a], FALSE,
                  Before(a))
  /\ UNCHANGED <<cls, fleetTag, status, tagsOf, isLeader, peers, groups,
                 pendingRemovals, firstRun, destroyReq, createReq, destroyCount,
                 history, counters>>

(* democracy.on('removed') *)
Removed(a, id) ==
  /\ Up(a) /\ Budget /\ id # a
  /\ peers[a][id] # "none"
  /\ status[id] \in {"down", "gone"}
  /\ LET data == [id |-> id, state |-> peers[a][id]]
         ctx == IF RemovedRunsPipeline(isLeader[a])
                THEN HandleRemoval(Ctx0(servers[a]), cls, groups[a], data)
                ELSE Ctx0(servers[a])
     IN /\ peers' = [peers EXCEPT ![a][id] = "none"]
        /\ pendingRemovals' = [pendingRemovals EXCEPT ![a] =
                                 IF RemovedBuffers(isLeader[a], data.state)
                                 THEN Append(@, data) ELSE @]
        /\ servers' = [servers EXCEPT ![a] = ctx.servers]
        /\ Issue(ctx.calls)
        /\ history' = [history EXCEPT
                         ![a].leaderSeen = IF data.state = "leader" THEN FALSE ELSE @,
                         ![a].removedSeen = @ \cup {id},
                         ![a].removedAsLeader =
                            IF isLeader[a] THEN @ \cup {id} ELSE @,
                         ![a].callsAsCitizen =
                            IF ctx.calls # <<>> /\ ~isLeader[a] THEN 1 ELSE @]
        /\ last' = Last(a, "removed", id, data.state, ctx, isLeader[a], FALSE,
                        Before(a))
  /\ UNCHANGED <<cls, fleetTag, status, tagsOf, isLeader, groups, firstRun,
                 lookups, counters>>

(* democracy.on('elected'): democracy has made the local node leader. *)
Elected(a) ==
  /\ Up(a) /\ Budget
  /\ ~isLeader[a]
  /\ \A b \in Ids \ {a} : ~(Up(b) /\ isLeader[b])
  /\ LET drained == Drain(Ctx0(servers[a]), cls, groups[a], pendingRemovals[a])
         boot == (~drained.threw) /\ firstRun[a]
         rebalanced == boot /\ groups[a] # <<>>
         ctx == IF boot THEN BalanceAll(drained, cls, groups[a]) ELSE drained
     IN /\ isLeader' = [isLeader EXCEPT ![a] = TRUE]
        /\ pendingRemovals' = [pendingRemovals EXCEPT ![a] =
                                 IF drained.threw THEN @ ELSE <<>>]
        /\ firstRun' = [firstRun EXCEPT ![a] =
                          IF boot THEN FirstRunAfterBoot(cls) ELSE @]
        /\ servers' = [servers EXCEPT ![a] = ctx.servers]
        /\ Issue(ctx.calls)
        /\ history' = [history EXCEPT
                         ![a].elections = @ + 1,
                         ![a].removedAsLeader =
                            @ \cup Range(drained.handled) \cup Range(drained.missing),
                         ![a].boots = IF rebalanced THEN @ + 1 ELSE @]
        /\ last' = Last(a, "elected", a, "leader", ctx, isLeader'[a], rebalanced,
                        Before(a))
  /\ UNCHANGED <<cls, fleetTag, status, tagsOf, peers, groups, lookups, counters>>

(* democracy.on('leader'): another node was recognised as leader. *)
Leader(a, id) ==
  /\ Up(a) /\ Up(id) /\ id # a
  /\ isLeader[id]
  /\ peers[a][id] = "citizen"
  /\ peers' = [peers EXCEPT ![a][id] = "leader"]
  /\ pendingRemovals' = [pendingRemovals EXCEPT ![a] = <<>>]
  /\ firstRun' = [firstRun EXCEPT ![a] = FALSE]
  /\ history' = [history EXCEPT ![a].leaderSeen = TRUE]
  /\ last' = Last(a, "leader", id, "leader", Ctx0(servers[a]), isLeader[a], FALSE,
                  Before(a))
  /\ UNCHANGED <<cls, fleetTag, status, tagsOf, isLeader, servers, groups, lookups,
                 destroyReq, createReq, destroyCount, counters>>

----------------------------------------------------------------------------
(* The environment: droplets, the provider, democracy's elections. *)

(* A node stops answering (its heartbeats end). *)
Fail(id) ==
  /\ status[id] = "up"
  /\ counters.env < MaxEnv
  /\ status' = [status EXCEPT ![id] = "down"]
  /\ isLeader' = [isLeader EXCEPT ![id] = FALSE]
  /\ counters' = [counters EXCEPT !.env = @ + 1]
  /\ UNCHANGED <<cls, fleetTag, tagsOf, peers, servers, groups, pendingRemovals,
                 firstRun, lookups, destroyReq, createReq, destroyCount, history,
                 last>>

(* A node that had only stopped answering (a pause or a partition longer   *)
(* than democracy's timeout) answers again.                                *)
Recover(id) ==
  /\ status[id] = "down"
  /\ counters.env < MaxEnv
  /\ status' = [status EXCEPT ![id] = "up"]
  /\ counters' = [counters EXCEPT !.env = @ + 1]
  /\ UNCHANGED <<cls, fleetTag, tagsOf, isLeader, peers, servers, groups,
                 pendingRemovals, firstRun, lookups, destroyReq, createReq,
                 destroyCount, history, last>>

(* The provider deletes a droplet (a dropletsDelete call succeeds). *)
DestroyDone(id) ==
  /\ id \in destroyReq
  /\ destroyReq' = destroyReq \ {id}
  /\ status' = [status EXCEPT ![id] = "gone"]
  /\ isLeader' = [isLeader EXCEPT ![id] = FALSE]
  /\ UNCHANGED <<cls, fleetTag, tagsOf, peers, servers, groups, pendingRemovals,
                 firstRun, lookups, createReq, destroyCount, history, counters,
                 last>>

(* The provider rejects a dropletsDelete call; destroy's .catch(debug)     *)
(* consumes the rejection.                                                 *)
DestroyFail(id) ==
  /\ id \in destroyReq
  /\ destroyReq' = destroyReq \ {id}
  /\ UNCHANGED <<cls, fleetTag, status, tagsOf, isLeader, peers, servers, groups,
                 pendingRemovals, firstRun, lookups, createReq, destroyCount,
                 history, counters, last>>

FreeIds == {id \in Ids : status[id] = "none"}

(* The provider boots a droplet (a dropletsCreate call succeeds). *)
CreateDone(n) ==
  /\ createReq[n] > 0
  /\ FreeIds # {}
  /\ LET id == CHOOSE i \in FreeIds : \A j \in FreeIds : i <= j
     IN /\ status' = [status EXCEPT ![id] = "up"]
        /\ tagsOf' = [tagsOf EXCEPT ![id] = ConfigTags(n)]
  /\ createReq' = [createReq EXCEPT ![n] = @ - 1]
  /\ UNCHANGED <<cls, fleetTag, isLeader, peers, servers, groups, pendingRemovals,
                 firstRun, lookups, destroyReq, destroyCount, history, counters,
                 last>>

(* create's .catch(debug) / .catch(console.log): the rejection is consumed *)
(* by the logger, nothing is re-thrown and nothing else is touched.        *)
CreateRethrows(ctx) == [ctx EXCEPT !.threw = TRUE]
CreateCatch(ctx) == ctx

(* The provider rejects a dropletsCreate call of agent a. *)
CreateFail(a, n) ==
  /\ Up(a)
  /\ createReq[n] > 0
  /\ createReq' = [createReq EXCEPT ![n] = @ - 1]
  /\ LET ctx == CreateCatch(Ctx0(servers[a]))
     IN /\ servers' = [servers EXCEPT ![a] = ctx.servers]
        /\ history' = [history EXCEPT ![a].createFailed = TRUE]
        /\ last' = Last(a, "createFailed", 0, n, ctx, isLeader[a], FALSE, Before(a))
  /\ UNCHANGED <<cls, fleetTag, status, tagsOf, isLeader, peers, groups,
                 pendingRemovals, firstRun, lookups, destroyReq, destroyCount,
                 counters>>

(* The agent of a node whose handlers are not followed wins the election. *)
RemoteElected(id) ==
  /\ id \notin Agents /\ Up(id)
  /\ \A b \in Ids : ~(Up(b) /\ isLeader[b])
  /\ counters.env < MaxEnv
  /\ isLeader' = [isLeader EXCEPT ![id] = TRUE]
  /\ counters' = [counters EXCEPT !.env = @ + 1]
  /\ UNCHANGED <<cls, fleetTag, status, tagsOf, peers, servers, groups,
                 pendingRemovals, firstRun, lookups, destroyReq, createReq,
                 destroyCount, history, last>>

(* democracy takes leadership away from a live leader (it reverts to       *)
(* citizen); the peers learn it from its next hello.                       *)
Resign(a) ==
  /\ Up(a) /\ isLeader[a]
  /\ counters.env < MaxEnv
  /\ isLeader' = [isLeader EXCEPT ![a] = FALSE]
  /\ peers' = [b \in Agents |-> [id \in Ids |->
                 IF id = a /\ peers[b][id] = "leader" THEN "citizen" ELSE peers[b][id]]]
  /\ counters' = [counters EXCEPT !.env = @ + 1]
  /\ UNCHANGED <<cls, fleetTag, status, tagsOf, servers, groups, pendingRemovals,
                 firstRun, lookups, destroyReq, createReq, destroyCount, history,
                 last>>

Next ==
  \/ \E a \in Agents : Group(a)
  \/ \E a \in Agents, id \in Ids : Added(a, id)
  \/ \E a \in Agents, id \in Ids : LookupReturn(a, id)
  \/ \E a \in Agents, id \in Ids : Removed(a, id)
  \/ \E a \in Agents : Elected(a)
  \/ \E a \in Agents, id \in Ids : Leader(a, id)
  \/ \E id \in Ids : Fail(id)
  \/ \E id \in Ids : DestroyDone(id)
  \/ \E n \in ConfigNames : CreateDone(n)
  \/ \E id \in Ids : RemoteElected(id)
  \/ \E id \in Ids : Resign(id)

Spec == Init /\ [][Next]_vars

(* The same agents in a rougher environment: nodes that were dropped for   *)
(* missing democracy's timeout come back, and the provider rejects calls.  *)
NextChurn ==
  \/ Next
  \/ \E id \in Ids : Recover(id)
  \/ \E id \in Ids : DestroyFail(id)
  \/ \E a \in Agents, n \in ConfigNames : CreateFail(a, n)

SpecChurn == Init /\ [][NextChurn]_vars


----------------------------------------------------------------------------
(* balance() on its own: the inputs are drawn from bounded sets and the    *)
(* method is called directly, any number of times, with no event between.  *)

TagSets(f) == {{f} \cup x : x \in SUBSET {"envT", "typeS"}}

Registries(f) ==
  UNION {[1 .. n -> {[id |-> i, tags |-> t] : i \in 1 .. MaxLen, t \in TagSets(f)}]
           : n \in 0 .. MaxLen}

InputGroups ==
  {[name |-> "A", tags |-> t, size |-> n, config |-> GroupA.config]
     : t \in {{}, {"envT"}, {"envT", "typeS"}}, n \in 0 .. MaxSize}

InitBalance ==
  /\ cls \in Classes
  /\ fleetTag \in {"healthcare", "fleet"}
  /\ status = [id \in Ids |-> IF id \in InitialIds THEN "up" ELSE "none"]
  /\ tagsOf = [id \in Ids |-> {}]
  /\ isLeader = [id \in Ids |-> id \in Agents]
  /\ peers = [a \in Agents |-> [id \in Ids |-> IF id = a THEN "citizen" ELSE "none"]]
  /\ \E r \in Registries(fleetTag) :
       /\ \A i \in 1 .. Len(r) : r[i].id = i
       /\ \A a \in Agents : FindIndex(r, a) # 0
       /\ servers = [a \in Agents |-> r]
  /\ \E g \in InputGroups : groups = [a \in Agents |-> <<g>>]
  /\ pendingRemovals = [a \in Agents |-> <<>>]
  /\ firstRun = [a \in Agents |-> FALSE]
  /\ lookups = [a \in Agents |-> [id \in Ids |-> 0]]
  /\ destroyReq = {}
  /\ createReq = [n \in ConfigNames |-> 0]
  /\ destroyCount = [id \in Ids |-> 0]
  /\ history = [a \in Agents |-> Hist0]
  /\ counters = [env |-> 0]
  /\ last = NoLast

(* balance(group) called on the i-th registered group. *)
CallBalance(a, i) ==
  /\ Up(a) /\ Budget
  /\ i \in 1 .. Len(groups[a])
  /\ LET ctx == Balance(Ctx0(servers[a]), cls, groups[a][i])
         again == last.kind = "balance" /\ last.agent = a /\ last.id = i
     IN /\ Issue(ctx.calls)
        /\ last' = Last(a, "balance", i, "-", ctx, isLeader[a], FALSE,
                        [Before(a) EXCEPT !.repeat = again])
  /\ UNCHANGED <<cls, fleetTag, status, tagsOf, isLeader, peers, servers, groups,
                 pendingRemovals, firstRun, lookups, history, counters>>

NextBalance ==
  \/ \E a \in Agents, i \in {1} : CallBalance(a, i)
  \/ \E a \in Agents, n \in ConfigNames : CreateFail(a, n)

SpecBalance == InitBalance /\ [][NextBalance]_vars


----------------------------------------------------------------------------
(* Healthcare's floating IPs: group({tags, size, floatingIp, config}) and  *)
(* the sub-election of a group.                                            *)

(* The reply of dropletsGetById(id), as the added handler reads it         *)
(* (res.body.droplet).                                                     *)
GetByIdReply(id) == [body |-> [droplet |-> [id |-> id, tags |-> tagsOf[id]]]]

(* getServerTags: this.tags = data.tags || [], data being the reply. *)
ThisTags(data) == IF "tags" \in DOMAIN data THEN data.tags ELSE {}

(* group(): thisServerInGroup *)
ThisServerInGroup(thistags, tags) ==
  \A tag \in thistags : tag \in tags \/ tag = "healthcare"

AssignCall(ip, id) == [op |-> "assign", id |-> id, config |-> ip]

FloatingIps == {"", "203.0.113.5"}

FloatInputs ==
  {[name |-> "A", tags |-> t, size |-> 2, floatingIp |-> ip, config |-> GroupA.config]
     : t \in {{"envT"}, {"typeS"}, {"envT", "typeS"}}, ip \in FloatingIps}

(* The constructor's default port. *)
Port == 12345

(* The address under which a droplet is reached (s.privateIp ||            *)
(* s.publicIp): one per droplet, named by the droplet's id.  The droplets  *)
(* have a private address, so this.localIp is the local droplet's.         *)
AddressOf(id) == id

(* An endpoint `${address}:${port}`. *)
Endpoint(address, port) == [address |-> address, port |-> port]

(* setupDemocracy: the source of the fleet's democracy. *)
FleetSource(a) == Endpoint(AddressOf(a), Port)

(* group(): the source of the group's democracy, given this.groups.length  *)
(* when group() runs.                                                      *)
GroupSource(a, length) == Endpoint(AddressOf(a), Port + length)

(* group(): the peers given to the group's democracy. *)
GroupPeers(peerIds) == {Endpoint(AddressOf(id), Port) : id \in peerIds}

(* group({tags, size, floatingIp, config}) *)
GroupFloat(a, g) ==
  /\ Up(a) /\ Budget
  /\ Len(groups[a]) < MaxGroups
  /\ LET thisServerInGroup == ThisServerInGroup(ThisTags(GetByIdReply(a)), g.tags)
         peerIds == {servers[a][i].id : i \in
                      {j \in 1 .. Len(servers[a]) :
                         InGroupHealthcare(servers[a][j].tags, g.tags)}}
         group == [name |-> g.name, tags |-> g.tags, size |-> g.size,
                   floatingIp |-> g.floatingIp, config |-> g.config,
                   democracy |->
                     IF g.floatingIp # "" /\ thisServerInGroup
                     THEN [state |-> "citizen", peers |-> peerIds,
                           source |-> GroupSource(a, Len(groups[a])),
                           endpoints |-> GroupPeers(peerIds)]
                     ELSE [state |-> "none", peers |-> {},
                           source |-> Endpoint(0, 0), endpoints |-> {}]]
         ctx == IF GroupBalances(isLeader[a])
                THEN Balance(Ctx0(servers[a]), cls, group)
                ELSE Ctx0(servers[a])
     IN /\ groups' = [groups EXCEPT ![a] = Append(@, group)]
        /\ Issue(ctx.calls)
        /\ history' = [history EXCEPT ![a].callsAsCitizen =
                         IF ctx.calls # <<>> /\ ~isLeader[a] THEN 1 ELSE @]
        /\ last' = Last(a, "group", 0, "-", ctx, isLeader[a], FALSE, Before(a))
  /\ UNCHANGED <<cls, fleetTag, status, tagsOf, isLeader, peers, servers,
                 pendingRemovals, firstRun, lookups, counters>>

(* group.democracy.on('elected'): the local node wins the sub-election of  *)
(* its i-th group.                                                         *)
SubElected(a, i) ==
  /\ Up(a)
  /\ i \in 1 .. Len(groups[a])
  /\ groups[a][i].democracy.state = "citizen"
  /\ LET ctx == [Ctx0(servers[a]) EXCEPT
                   !.calls = <<AssignCall(groups[a][i].floatingIp, a)>>]
     IN /\ groups' = [groups EXCEPT ![a][i].democracy.state = "leader"]
        /\ last' = Last(a, "subelected", i, "-", ctx, isLeader[a], FALSE, Before(a))
  /\ UNCHANGED <<cls, fleetTag, status, tagsOf, isLeader, peers, servers,
                 pendingRemovals, firstRun, lookups, destroyReq, createReq,
                 destroyCount, history, counters>>

(* The sub-election's democracy takes the group's leadership back. *)
SubResign(a, i) ==
  /\ Up(a)
  /\ i \in 1 .. Len(groups[a])
  /\ groups[a][i].democracy.state = "leader"
  /\ counters.env < MaxEnv
  /\ groups' = [groups EXCEPT ![a][i].democracy.state = "citizen"]
  /\ counters' = [counters EXCEPT !.env = @ + 1]
  /\ UNCHANGED <<cls, fleetTag, status, tagsOf, isLeader, peers, servers,
                 pendingRemovals, firstRun, lookups, destroyReq, createReq,
                 destroyCount, history, last>>

InitFloat ==
  /\ cls = "Healthcare"
  /\ InitAgents

NextFloat ==
  \/ \E a \in Agents, g \in FloatInputs : GroupFloat(a, g)
  \/ \E a \in Agents, i \in 1 .. MaxGroups : SubElected(a, i)
  \/ \E a \in Agents, i \in 1 .. MaxGroups : SubResign(a, i)

SpecFloat == InitFloat /\ [][NextFloat]_vars

----------------------------------------------------------------------------
(* The claims. *)

(* C1: for every removal event of a node id, the destroy(id) calls issued  *)
(* by all agents together number exactly one: an id with a removal event   *)
(* is never destroyed twice, and once the leader has handled removed(id)   *)
(* for an id its Registry held, directly or by draining its buffer on      *)
(* election, destroy(id) has been issued exactly once.                     *)
C1_ExactlyOneDestroyPerRemoval ==
  /\ \A a \in Agents : \A id \in history[a].removedSeen : destroyCount[id] <= 1
  /\ (last.kind = "removed" /\ last.leader /\ last.missing = <<>>) =>
       destroyCount[last.id] = 1
  /\ (last.kind = "elected" /\ last.missing = <<>>) =>
       \A i \in 1 .. Len(last.before.pending) :
         destroyCount[last.before.pending[i].id] = 1

(* C2: every destroy or create issued from the removed handler, the        *)
(* elected handler or group() is issued by an agent whose isLeader() is    *)
(* true at that instant; a non-leader never issues one.                    *)
C2_OnlyLeaderMutates ==
  /\ (last.kind \in {"removed", "elected", "group"} /\ last.calls # <<>>) => last.leader
  /\ \A a \in Agents : history[a].callsAsCitizen = 0

(* A leader's removed handler issued calls, and before that the same agent *)
(* handled events as a citizen.                                            *)
C2_Witness ==
  /\ last.kind = "removed" /\ last.leader
  /\ Len(last.calls) >= 2
  /\ history[last.agent].removedSeen # {last.id}


(* C3: balance(g) counts a registry node with tags T as a member of g iff  *)
(* T is a subset of g's matchTags plus the fleet tag the agent was         *)
(* configured with; a node with a tag outside is never chosen by a shrink. *)
C3_MembershipIsSubsetOfMatchTagsAndFleetTag ==
  last.kind = "balance" =>
    LET g == last.before.groups[last.id]
        svs == last.before.servers
    IN /\ \A i \in 1 .. Len(svs) :
            (svs[i].id \in Range(last.members[1]))
              <=> (svs[i].tags \subseteq (g.tags \cup {fleetTag}))
       /\ \A k \in 1 .. Len(last.calls) :
            last.calls[k].op = "destroy" =>
              \A i \in 1 .. Len(svs) :
                svs[i].id = last.calls[k].id =>
                  svs[i].tags \subseteq (g.tags \cup {fleetTag})

(* C4: whenever an agent has observed a leader event (a remote leader, or  *)
(* an added announcing a leader) and no removal of a leader since, its     *)
(* Pending-Removal Buffer is empty.                                        *)
C4_BufferEmptyWhileLeaderKnown ==
  \A a \in Agents : history[a].leaderSeen => pendingRemovals[a] = <<>>

(* C5: whenever the local agent is leader its Pending-Removal Buffer is    *)
(* empty, and every elected and every leader event leaves it empty,        *)
(* whatever it held.                                                       *)
C5_BufferEmptyWhenLeader ==
  /\ \A a \in Agents : (Up(a) /\ isLeader[a]) => pendingRemovals[a] = <<>>
  /\ last.kind \in {"elected", "leader"} => pendingRemovals[last.agent] = <<>>

(* C6: the elected handler balances every group (the bootstrap rebalance)  *)
(* on at most one election of an agent, its first; later elections only    *)
(* drain the pending removals.                                             *)
C6_BootstrapRebalanceOnlyOnFirstElection ==
  /\ \A a \in Agents : history[a].boots <= 1
  /\ (last.kind = "elected" /\ last.boot) => history[last.agent].elections = 1

(* C7: balance(g) called twice with no membership event handled between    *)
(* issues no create and no destroy on the second call.                     *)
C7_SecondBalanceIsNoOp ==
  (last.kind = "balance" /\ last.before.repeat) => last.calls = <<>>

(* C8: leader death.  B buffered removed(A, leader) as a citizen, A and B  *)
(* are the members of a group g of size 2; B issued nothing as a citizen   *)
(* and its elected handler issues exactly one destroy(A) and exactly one   *)
(* create for g, first election or not.                                    *)
LeaderDeathScenario(g) ==
  /\ last.kind = "elected"
  /\ Len(last.before.pending) = 1
  /\ last.before.pending[1].state = "leader"
  /\ g \in Range(last.before.groups)
  /\ g.size = 2
  /\ LET m == BalanceMembers(cls, last.before.servers, g)
     IN /\ Len(m) = 2
        /\ {m[1].id, m[2].id} = {last.agent, last.before.pending[1].id}

C8_LeaderDeathOneDestroyOneCreate ==
  \A g \in {GroupA, GroupB} :
    LeaderDeathScenario(g) =>
      /\ history[last.agent].callsAsCitizen = 0
      /\ CountDestroys(last.calls, last.before.pending[1].id) = 1
      /\ CountCreates(last.calls, g.config.name) = 1

(* C9: at the leader, when no call, lookup or gossip event is outstanding  *)
(* (every live node is known and in the registry, every registry entry is  *)
(* alive), each registered group has exactly desiredSize members.          *)
Converged(a) ==
  /\ destroyReq = {}
  /\ \A n \in ConfigNames : createReq[n] = 0
  /\ \A id \in Ids : lookups[a][id] = 0
  /\ \A id \in Ids \ {a} : (status[id] = "up") <=> (peers[a][id] # "none")
  /\ \A id \in Ids : status[id] = "up" => FindIndex(servers[a], id) # 0
  /\ \A i \in 1 .. Len(servers[a]) : status[servers[a][i].id] = "up"

C9_ConvergedGroupsHaveDesiredSize ==
  \A a \in Agents :
    (Up(a) /\ isLeader[a] /\ Converged(a)) =>
      \A i \in 1 .. Len(groups[a]) :
        Len(BalanceMembers(cls, servers[a], groups[a][i])) = groups[a][i].size

(* C10: a removed event for an id that is not in the Registry is ignored   *)
(* by the leader: nothing is issued for it, the Registry is unchanged, no  *)
(* error is raised, and the rest of the handler (the other buffered        *)
(* events, clearing the buffer) still runs.                                *)
C10_UnknownIdIsIgnored ==
  (last.kind \in {"removed", "elected"} /\ last.missing # <<>>) =>
    /\ ~last.threw
    /\ last.kind = "removed" =>
         (last.calls = <<>> /\ servers[last.agent] = last.before.servers)
    /\ last.kind = "elected" => pendingRemovals[last.agent] = <<>>

(* C11: no two entries of an agent's Registry have the same id, whatever   *)
(* the interleaving of the listing, added events, lookups and removals.    *)
C11_RegistryIdsUnique ==
  \A a \in Agents : \A i, j \in 1 .. Len(servers[a]) :
    i # j => servers[a][i].id # servers[a][j].id

(* C12: a create call that fails is swallowed: the Registry, the groups    *)
(* and the Pending-Removal Buffer are as before and no error reaches the   *)
(* caller; the next balance of the group, the Registry still short, issues *)
(* create again for every missing member.                                  *)
C12_FailedCreateIsSwallowedAndRetried ==
  /\ last.kind = "createFailed" =>
       /\ ~last.threw
       /\ servers[last.agent] = last.before.servers
       /\ groups[last.agent] = last.before.groups
       /\ pendingRemovals[last.agent] = last.before.pending
  /\ (last.kind = "balance" /\ history[last.agent].createFailed) =>
       LET g == last.before.groups[last.id]
           short == g.size - Len(last.members[1])
       IN short > 0 => CountCreates(last.calls, g.config.name) = short

(* A balance that followed a rejected create found the group still short   *)
(* and issued create again.                                                *)
C12_Witness ==
  /\ last.kind = "balance" /\ history[last.agent].createFailed
  /\ last.before.groups[last.id].size > Len(last.members[1])
  /\ CountCreates(last.calls, "A") > 0

(* C13: an elected event of a group's sub-election makes the elected       *)
(* member issue exactly one assignFloatingAddress(group.floatingAddress,   *)
(* local id); a group without a floating address, or of which the local    *)
(* agent is not a member, never causes such a call.                        *)
C13_FloatingAddressAssignedByElectedMemberOnly ==
  /\ last.kind = "subelected" =>
       LET g == last.before.groups[last.id]
       IN /\ last.calls = <<AssignCall(g.floatingIp, last.agent)>>
          /\ g.floatingIp # ""
          /\ tagsOf[last.agent] \subseteq (g.tags \cup {fleetTag})
  /\ last.kind # "subelected" =>
       \A k \in 1 .. Len(last.calls) : last.calls[k].op # "assign"

(* C14: when the leader runs the removal pipeline for a departed node X,   *)
(* the groups it re-balances are exactly the registered groups X was a     *)
(* member of (every tag of X is in the group's matchTags or is the fleet   *)
(* tag).                                                                   *)
C14_RemovalRebalancesExactlyTheGroupsOfX ==
  (last.kind = "removed" /\ last.leader /\ last.missing = <<>>) =>
    LET svs == last.before.servers
        x == svs[FindIndex(svs, last.id)]
        gs == last.before.groups
    IN \A i \in 1 .. Len(gs) :
         (gs[i].name \in Range(last.balanced))
           <=> (x.tags \subseteq (gs[i].tags \cup {fleetTag}))

(* C15: a balance(g) that finds diff < 0 issues destroy on exactly |diff|  *)
(* distinct members of g, the first |diff| in Registry order, and those    *)
(* members are out of the Registry when balance returns.                   *)
C15_ShrinkDestroysPrefixAndDropsIt ==
  last.kind = "balance" =>
    LET g == last.before.groups[last.id]
        m == last.members[1]
        n == Len(m) - g.size
    IN n > 0 =>
         /\ Len(last.calls) = n
         /\ \A k \in 1 .. n : last.calls[k] = DestroyCall(m[k])
         /\ \A j, k \in 1 .. n : j # k => m[j] # m[k]
         /\ \A k \in 1 .. n : FindIndex(servers[last.agent], m[k]) = 0

(* C16: on elected(self) the removal pipeline runs exactly once for each   *)
(* buffered event, in the order the events were appended, and the buffer   *)
(* is empty when the handler finishes.                                     *)
C16_ElectedDrainsBufferInOrder ==
  last.kind = "elected" =>
    /\ last.handled = [i \in 1 .. Len(last.before.pending) |->
                         last.before.pending[i].id]
    /\ pendingRemovals[last.agent] = <<>>

(* C17: an agent that is not leader and handles removed(peer) issues no    *)
(* IaaS call and leaves the Registry and the groups as they were; the      *)
(* Pending-Removal Buffer gains exactly that event if the peer's role was  *)
(* leader and is unchanged otherwise.                                      *)
C17_NonLeaderRemovedOnlyBuffersLeaders ==
  (last.kind = "removed" /\ ~last.leader) =>
    /\ last.calls = <<>>
    /\ servers[last.agent] = last.before.servers
    /\ groups[last.agent] = last.before.groups
    /\ pendingRemovals[last.agent] =
         IF last.state = "leader"
         THEN Append(last.before.pending, [id |-> last.id, state |-> last.state])
         ELSE last.before.pending

(* A citizen with groups registered handled the removal of a citizen that  *)
(* its Registry held, with the removal of a leader already buffered.       *)
C17_Witness ==
  /\ last.kind = "removed" /\ ~last.leader
  /\ last.state = "citizen"
  /\ last.before.pending # <<>>
  /\ last.before.groups # <<>>
  /\ FindIndex(last.before.servers, last.id) # 0

(* C18: a node leaves an agent's Registry only after a removed event for   *)
(* it was handled and its destroy call has succeeded; while destroy(id)    *)
(* has failed or not completed the node is still in the Registry.          *)
C18_NodeLeavesRegistryOnlyAfterDestroySucceeded ==
  \A a \in Agents : \A id \in Ids :
    (last.agent = a /\ FindIndex(last.before.servers, id) # 0
       /\ FindIndex(servers[a], id) = 0) =>
      /\ id \in history[a].removedSeen
      /\ status[id] = "gone"

(* C19: the leader never issues destroy on its own id: a balance that      *)
(* shrinks a group never picks the local agent's own instance.             *)
C19_LeaderNeverDestroysItself ==
  /\ CountDestroys(last.calls, last.agent) = 0
  /\ \A a \in Agents : destroyCount[a] = 0

(* C20: once the leader has handled removed(X), X is not in its Registry   *)
(* until a later added(X) is handled, whenever the replies to earlier      *)
(* lookups of X arrive.                                                    *)
C20_RemovedNodeStaysOutUntilAdded ==
  \A a \in Agents : (Up(a) /\ isLeader[a]) =>
    \A id \in history[a].removedAsLeader : FindIndex(servers[a], id) = 0


(* C21: when an agent is elected and balances a group, its registry holds  *)
(* no node whose removed event the agent has handled with no added event   *)
(* since, and no such node is counted among the members balance computed   *)
(* (removals the agent saw as a citizen included).                         *)
C21_ElectedBalanceCountsNoRemovedNode ==
  (last.kind = "elected" /\ last.balanced # <<>>) =>
     /\ \A i \in 1 .. Len(servers[last.agent]) :
          servers[last.agent][i].id \notin history[last.agent].removedSeen
     /\ \A i \in 1 .. Len(last.members) : \A j \in 1 .. Len(last.members[i]) :
          last.members[i][j] \notin history[last.agent].removedSeen


(* C22: within one elected handler the number of create calls issued for   *)
(* a group is at most the group's size minus the number of its members in  *)
(* the registry at the end of the drain (the registry the handler leaves:  *)
(* balance does not change it), so the drain's re-balance and the          *)
(* bootstrap re-balance do not both replace the same missing members.      *)
C22_ElectedCreatesAtMostTheDeficit ==
  (last.kind = "elected") =>
     \A i \in 1 .. Len(groups[last.agent]) :
       LET g == groups[last.agent][i]
           members == BalanceMembers(cls, servers[last.agent], g)
           deficit == IF g.size > Len(members) THEN g.size - Len(members) ELSE 0
       IN CountCreates(last.calls, g.config.name) <= deficit


(* C23: for every group registered with a floating address, the endpoint   *)
(* its sub-election engine binds differs from the fleet engine's endpoint  *)
(* and from the endpoint of every other sub-election engine of the agent,  *)
(* and the peer endpoints given to the sub-election engine carry the port  *)
(* on which the sub-election engines of that group are bound (every agent  *)
(* runs the same build and registers the same groups in the same order).   *)
C23_SubElectionEndpointsAreDistinctAndConsistent ==
  \A a \in Agents : \A i \in 1 .. Len(groups[a]) :
    LET d == groups[a][i].democracy
    IN d.state # "none" =>
         /\ d.source # FleetSource(a)
         /\ \A j \in 1 .. Len(groups[a]) :
              (j # i /\ groups[a][j].democracy.state # "none") =>
                 groups[a][j].democracy.source # d.source
         /\ \A e \in d.endpoints : e.port = d.source.port

====
